---- MODULE Spec2Model ----
(***************************************************************************)
(* A model of the ChristianArtAgent session object: its Query State, the   *)
(* result cache, the scheduled pipeline runs (processArtQuery and its      *)
(* three stages, one step per await), the HTTP surface and the push        *)
(* channel.  One session is modelled; JavaScript runs each handler         *)
(* atomically between two awaits, so every action below is the code        *)
(* between two consecutive awaits of one handler.                          *)
(***************************************************************************)
EXTENDS Integers, Sequences, FiniteSets, TLC

VARIABLES
    state,      \* this.state: a record over the keys that are present
    cache,      \* env.ART_CACHE: a record over the keys that hold an entry
    runs,       \* the scheduled / running processArtQuery invocations
    reqs,       \* POST /query requests suspended in ART_CACHE.get
    conns,      \* the push channels: open flag and the messages the last step sent
    resp,       \* the HTTP response the last step gave, if it gave one
    console,    \* what the last step wrote with console.error
    now,        \* the wall clock read by Date
    nsub,       \* how many submissions (POST /query, channel messages) were made
    researchFailed, \* history: a run's research failed and no submission came since
    lim,        \* the bounds of the specification being checked
    client      \* the front end's App component: its React state and what it awaits

vars == <<state, cache, runs, reqs, conns, resp, console, now, nsub, researchFailed, lim,
          client>>

(***************************************************************************)
(* Bounds                                                                  *)
(***************************************************************************)
MaxSubs == 2        \* submissions per behaviour of Spec
MaxCands == 1       \* candidates a research reply may hold in Spec
PipeSubs == 1       \* submissions per behaviour of SpecPipeline
PipeCands == 2      \* candidates a research reply may hold in SpecPipeline
MaxTime == 1        \* the clock of SpecPipeline runs from 0 to MaxTime
MaxChannels == 1    \* push channels
FanChannels == 2    \* push channels of the fan-out specification

Queries == {"q1", "q2"}
Channels == 1..MaxChannels
Times == 0..MaxTime

(***************************************************************************)
(* JavaScript values                                                       *)
(***************************************************************************)
Undefined == "<undefined>"
Null == "<null>"
Empty == [k \in {} |-> 0]

\* { ...s, ...p }
Spread(s, p) ==
    [k \in DOMAIN s \cup DOMAIN p |-> IF k \in DOMAIN p THEN p[k] ELSE s[k]]

\* a property whose value is undefined reads like an absent one and is
\* dropped by JSON.stringify: the key is left out
Prop(k, v) == IF v = Undefined THEN Empty ELSE (k :> v)

\* `${v}`
Str(v) == IF v = Undefined THEN "undefined" ELSE IF v = Null THEN "null" ELSE v

\* !!v for the strings the model uses
Truthy(v) == v # Undefined /\ v # Null /\ v # ""

Has(s, k) == k \in DOMAIN s

\* new Date().toISOString()
toISOString(t) == t

(***************************************************************************)
(* JSON: stringify leaves out the properties whose value is undefined      *)
(* (of an artwork, only title can be: researchArtworks copies it without a *)
(* default); parse gives back what the text holds.                         *)
(***************************************************************************)
StringifyArtwork(a) ==
    [k \in {j \in DOMAIN a : j # "title" \/ a[j] # Undefined} |-> a[k]]

JSONStringify(v) ==
    [json |-> [artworks |-> [i \in 1..Len(v.artworks) |-> StringifyArtwork(v.artworks[i])]]]

JSONParse(text) == text.json

\* the ART_CACHE key of a query
CacheKey(query) == "query:" \o Str(query)

(***************************************************************************)
(* Research stage: the completion reply and what researchArtworks makes    *)
(* of it.  A reply is the completion call failing, or a text: prose with   *)
(* no array, an empty array "[]", an array of objects that is not valid    *)
(* JSON, a valid array with a null element, or a valid array of n objects  *)
(* (the first one without a title when titled is FALSE).                   *)
(***************************************************************************)
ResearchKinds == {"callFails", "prose", "emptyArray", "badJson", "nullElement", "array"}

ResearchReplies(maxc) ==
    {[kind |-> k, n |-> 0, titled |-> TRUE] :
        k \in ResearchKinds \ {"array"}}
    \cup {[kind |-> "array", n |-> n, titled |-> b] : n \in 1..maxc, b \in BOOLEAN}

\* the replies Spec draws from: one failing text and the lists
FewResearchReplies(maxc) == ResearchReplies(maxc)

\* a pattern that asks for the brackets only: /\[.*\]/s
MatchAnyArray(reply) == reply.kind \in {"emptyArray", "badJson", "nullElement", "array"}

\* response.response.match(/\[\s*\{.*\}\s*\]/s): an opening bracket followed
\* by an object is needed, so "[]" and prose do not match
MatchArray(reply) == reply.kind \in {"badJson", "nullElement", "array"}

ResearchErrorMessage == "Failed to research artworks for the biblical narrative"

Title(reply, i) == IF i = 1 /\ ~reply.titled THEN Undefined ELSE "T" \o ToString(i)

\* the body of researchArtworks after the completion call returned
researchArtworks(reply, t) ==
    IF reply.kind = "callFails" \/ ~MatchArray(reply)
          \/ reply.kind = "badJson"         \* JSON.parse throws
          \/ reply.kind = "nullElement"     \* artwork.title of null throws
    THEN [ok |-> FALSE, error |-> ResearchErrorMessage, artworks |-> <<>>]
    ELSE [ok |-> TRUE, error |-> "",
          artworks |-> [i \in 1..reply.n |->
                           [id |-> <<"artwork", t, i - 1>>, title |-> Title(reply, i)]]]

(***************************************************************************)
(* Image resolution stage, one candidate                                   *)
(***************************************************************************)
Urls == {"http://img/a", "http://img/b"}

\* what the page gives for one candidate: newPage/goto/waitForSelector/
\* evaluate throws, or evaluate returns null, "" or a URL
ResolverReplies == {"throws", Null, ""} \cup Urls

\* the replies Spec draws from
FewResolverReplies == {"throws", Null, "", "http://img/a"}

encodeURIComponent(v) == Str(v)

PlaceholderUrl(artwork) ==
    "https://placekitten.com/600/400?text=" \o encodeURIComponent(artwork.title)

WithImage(artwork, url) == Spread(artwork, [imageUrl |-> url])

\* the push without the test of the evaluated value
PushResolvedUnchecked(list, artwork, reply) ==
    IF reply = "throws" THEN Append(list, WithImage(artwork, PlaceholderUrl(artwork)))
    ELSE Append(list, WithImage(artwork, reply))

\* the items pushed for one candidate up to the await of page.close()
PushResolved(list, artwork, reply) ==
    IF reply = "throws" THEN Append(list, WithImage(artwork, PlaceholderUrl(artwork)))
    ELSE IF Truthy(reply) THEN Append(list, WithImage(artwork, reply))
    ELSE Append(list, WithImage(artwork, PlaceholderUrl(artwork)))

\* the catch block of the per-item try, entered when page.close() throws
PushAfterCloseThrows(list, artwork) ==
    Append(list, WithImage(artwork, PlaceholderUrl(artwork)))

(***************************************************************************)
(* Annotation stage, one item                                              *)
(***************************************************************************)
AnnotationKeys ==
    {"historicalContext", "artisticStyle", "biblicalNarrative",
     "interestingDetails", "uniqueInterpretation"}

AnnotationKinds == {"callFails", "prose", "badJson", "object"}

\* the keys an object reply carries with a truthy value
FieldChoices == {AnnotationKeys, AnnotationKeys \ {"historicalContext"}}

AnnotationReplies ==
    {[kind |-> k, fields |-> {}] : k \in AnnotationKinds \ {"object"}}
    \cup {[kind |-> "object", fields |-> f] : f \in FieldChoices}

\* the replies Spec draws from
FewAnnotationReplies ==
    {reply \in AnnotationReplies :
        reply.kind # "object" \/ reply.fields = AnnotationKeys}

\* response.response.match(/\{[\s\S]*\}/)
MatchObject(reply) == reply.kind \in {"badJson", "object"}

Generated(k) == IF k = "interestingDetails" THEN <<"generated detail">> ELSE "generated text"

Unavailable(k) ==
    CASE k = "historicalContext" -> "Historical context information unavailable"
      [] k = "artisticStyle" -> "Artistic style information unavailable"
      [] k = "biblicalNarrative" -> "Biblical narrative interpretation unavailable"
      [] k = "interestingDetails" -> <<"Detail information unavailable">>
      [] k = "uniqueInterpretation" -> "Unique interpretation information unavailable"

CouldNotGenerate == "Information could not be generated at this time."

DefaultAnnotation(k) ==
    IF k = "interestingDetails" THEN <<CouldNotGenerate>> ELSE CouldNotGenerate

AnnotationFails(reply) ==
    reply.kind = "callFails" \/ ~MatchObject(reply) \/ reply.kind = "badJson"

\* a catch block that forgets the list of details
AnnotateNoDetails(artwork, reply) ==
    IF AnnotationFails(reply)
    THEN Spread(artwork, [annotations |->
            [k \in AnnotationKeys |->
                IF k = "interestingDetails" THEN <<>> ELSE DefaultAnnotation(k)]])
    ELSE Spread(artwork, [annotations |->
            [k \in AnnotationKeys |->
                IF k \in reply.fields THEN Generated(k) ELSE Unavailable(k)]])

\* one iteration of the loop of annotateArtworks
Annotate(artwork, reply) ==
    IF AnnotationFails(reply)
    THEN Spread(artwork, [annotations |-> [k \in AnnotationKeys |-> DefaultAnnotation(k)]])
    ELSE Spread(artwork, [annotations |->
            [k \in AnnotationKeys |->
                IF k \in reply.fields THEN Generated(k) ELSE Unavailable(k)]])

(***************************************************************************)
(* Query State, responses and push messages                                *)
(***************************************************************************)
OptKey(s, k) == IF k \in DOMAIN s THEN (k :> s[k]) ELSE Empty

OptAs(name, s, k) == IF k \in DOMAIN s THEN (name :> s[k]) ELSE Empty

\* this.state.processingStage || 'idle'
StageOrIdle(s) == IF Has(s, "processingStage") THEN s.processingStage ELSE "idle"

\* artworks as JSON.stringify / Response.json write them
Wire(artworks) == [i \in 1..Len(artworks) |-> StringifyArtwork(artworks[i])]

OptWorks(name, s) ==
    IF Has(s, "selectedWorks") THEN (name :> Wire(s.selectedWorks)) ELSE Empty

\* GET /status
StatusResponse(s) ==
    [op |-> "status", status |-> 200,
     body |-> ("state" :> StageOrIdle(s)) @@ OptKey(s, "lastUpdated")
              @@ OptAs("query", s, "currentQuery") @@ OptKey(s, "error")]

\* GET /results deciding on the presence of selectedWorks, not on the stage
ResultsResponseByWorks(s) ==
    IF ~Has(s, "selectedWorks")
    THEN [op |-> "results", status |-> 200,
          body |-> ("message" :> "Results not ready yet") @@ ("state" :> StageOrIdle(s))
                   @@ OptKey(s, "error")]
    ELSE [op |-> "results", status |-> 200,
          body |-> OptAs("query", s, "currentQuery") @@ OptWorks("artworks", s)]

\* GET /results
ResultsResponse(s) ==
    IF StageOrIdle(s) # "complete"
    THEN [op |-> "results", status |-> 200,
          body |-> ("message" :> "Results not ready yet") @@ ("state" :> StageOrIdle(s))
                   @@ OptKey(s, "error")]
    ELSE [op |-> "results", status |-> 200,
          body |-> OptAs("query", s, "currentQuery") @@ OptWorks("artworks", s)]

\* the default response of onRequest
DefaultResponse ==
    [op |-> "default", status |-> 200,
     body |-> [message |-> "Christian Art History AI Agent",
               endpoints |-> <<"/query", "/status", "/results">>]]

\* the worker's answer to a request routeAgentRequest hands to no agent:
\* a text body, not JSON
NotFoundResponse == [op |-> "fetch", status |-> 404, body |-> [text |-> "Not Found"]]

\* a step that answers no HTTP request
NoResponse == [op |-> "none", status |-> 0, body |-> Empty]

NoQueryResponse == [op |-> "query", status |-> 400, body |-> [error |-> "No query provided"]]

FailedResponse == [op |-> "query", status |-> 500, body |-> [error |-> "Failed to process query"]]

CachedResponse ==
    [op |-> "query", status |-> 200,
     body |-> [message |-> "Query results retrieved from cache", cached |-> TRUE]]

AcceptedResponse ==
    [op |-> "query", status |-> 200,
     body |-> [message |-> "Query received and processing started"]]

\* a connection greeted with the state message alone
ConnectMessagesStateOnly(s) ==
    <<[type |-> "state",
       data |-> ("processingStage" :> StageOrIdle(s))
                @@ OptAs("query", s, "currentQuery") @@ OptKey(s, "error")]>>

\* the messages onConnect sends
ConnectMessages(s) ==
    <<[type |-> "state",
       data |-> ("processingStage" :> StageOrIdle(s))
                @@ OptAs("query", s, "currentQuery") @@ OptKey(s, "error")]>>
    \o (IF StageOrIdle(s) = "complete" /\ Has(s, "selectedWorks")
        THEN <<[type |-> "results",
                data |-> OptAs("query", s, "currentQuery") @@ OptWorks("artworks", s)]>>
        ELSE <<>>)

\* the messages onStateUpdate sends to one connection
UpdateMessages(s) ==
    <<[type |-> "state",
       data |-> OptKey(s, "processingStage") @@ OptKey(s, "lastUpdated") @@ OptKey(s, "error")]>>
    \o (IF StageOrIdle(s) = "complete" /\ Has(s, "selectedWorks")
        THEN <<[type |-> "results",
                data |-> OptAs("query", s, "currentQuery") @@ OptWorks("artworks", s)]>>
        ELSE <<>>)

\* no message goes out in a step that sends none
Silent(cs) == [c \in DOMAIN cs |-> [cs[c] EXCEPT !.sent = <<>>]]

Send(cs, c, msgs) == [cs EXCEPT ![c].sent = @ \o msgs]

\* connection.send throws for some connected socket
SendThrows(cs) == \E c \in DOMAIN cs : cs[c].open /\ cs[c].broken

\* the sockets the loop of onStateUpdate gets to: all the connected ones,
\* up to the first whose send throws (nothing catches it in the loop)
Reached(cs) ==
    {c \in DOMAIN cs :
        cs[c].open /\ \A d \in DOMAIN cs : (d <= c /\ cs[d].open) => ~cs[d].broken}

\* onStateUpdate: every connected socket the loop gets to is sent the messages
onStateUpdate(cs, s) ==
    [c \in DOMAIN cs |->
        IF c \in Reached(cs) THEN [cs[c] EXCEPT !.sent = @ \o UpdateMessages(s)] ELSE cs[c]]

\* the states the handlers hand to setState
AnalyzingState(query, t) ==
    Prop("currentQuery", query)
    @@ [processingStage |-> "analyzing", lastUpdated |-> toISOString(t)]

CachedState(query, parsed, t) ==
    [currentQuery |-> query, selectedWorks |-> parsed.artworks,
     processingStage |-> "complete", lastUpdated |-> toISOString(t)]

\* a stage write that forgets the stage
StageStateKeepsStage(s, stage, t) == Spread(s, [lastUpdated |-> toISOString(t)])

StageState(s, stage, t) ==
    Spread(s, [processingStage |-> stage, lastUpdated |-> toISOString(t)])

CompleteState(s, works, t) ==
    Spread(s, [selectedWorks |-> works, processingStage |-> "complete",
               lastUpdated |-> toISOString(t)])

ErrorState(s, message, t) ==
    Spread(s, [processingStage |-> "error", error |-> message,
               lastUpdated |-> toISOString(t)])

(***************************************************************************)
(* Runs of processArtQuery                                                 *)
(***************************************************************************)
NoRun ==
    [pc |-> "none", query |-> Undefined, cands |-> <<>>, k |-> 0,
     imgs |-> <<>>, anns |-> <<>>, failed |-> {}, closeFailed |-> {}, annFailed |-> {}]

RunIds == DOMAIN runs

FreeRun == CHOOSE r \in RunIds : runs[r].pc = "none" /\ \A o \in RunIds : runs[o].pc = "none" => r <= o

\* this.schedule(0, 'processArtQuery', { query })
schedule(rs, query) == [rs EXCEPT ![FreeRun] = [NoRun EXCEPT !.pc = "scheduled", !.query = query]]

\* the App component after mounting: the useState defaults, the WebSocket
\* being opened, no request or timer pending
ClientInit ==
    [isLoading |-> FALSE, status |-> "idle", results |-> FALSE,
     socket |-> "connecting", polling |-> "no"]

(***************************************************************************)
(* Initial states                                                          *)
(***************************************************************************)
InitWith(l) ==
    /\ lim = l
    /\ state = Empty
    /\ cache = Empty
    /\ runs = [r \in 1..l.subs |-> NoRun]
    /\ reqs = [q \in Queries |-> 0]
    /\ conns = [c \in 1..l.channels |-> [open |-> FALSE, broken |-> FALSE, sent |-> <<>>]]
    /\ resp = NoResponse
    /\ console = <<>>
    /\ now = 0
    /\ nsub = 0
    /\ researchFailed = FALSE
    /\ client = ClientInit

\* Spec: several submissions, HTTP and push channel, with few kinds of reply
Init ==
    InitWith([subs |-> MaxSubs,
              channels |-> MaxChannels,
              research |-> FewResearchReplies(MaxCands),
              resolver |-> FewResolverReplies,
              pageClose |-> {TRUE},
              annotation |-> FewAnnotationReplies])

\* SpecPipeline: the runs of few submissions, with every kind of reply
InitPipeline ==
    InitWith([subs |-> PipeSubs,
              channels |-> MaxChannels,
              research |-> ResearchReplies(PipeCands),
              resolver |-> ResolverReplies,
              pageClose |-> BOOLEAN,
              annotation |-> AnnotationReplies])

\* SpecFanOut: one submission and its run, several channels whose sends can throw
InitFanOut ==
    InitWith([subs |-> PipeSubs,
              channels |-> FanChannels,
              research |-> FewResearchReplies(MaxCands),
              resolver |-> {"http://img/a"},
              pageClose |-> {TRUE},
              annotation |-> {[kind |-> "object", fields |-> AnnotationKeys]}])

\* SpecClient: the front end with the session it talks to
InitClient ==
    InitWith([subs |-> MaxSubs,
              channels |-> MaxChannels,
              research |-> FewResearchReplies(MaxCands),
              resolver |-> FewResolverReplies,
              pageClose |-> {TRUE},
              annotation |-> FewAnnotationReplies])

\* this.setState(s): the state is replaced and onStateUpdate runs
setState(s) ==
    /\ state' = s
    /\ conns' = onStateUpdate(Silent(conns), s)

(***************************************************************************)
(* onRequest                                                               *)
(***************************************************************************)
\* POST /query whose body does not parse
HttpQueryUnparseable ==
    /\ nsub < lim.subs
    /\ nsub' = nsub + 1
    /\ resp' = FailedResponse
    /\ conns' = Silent(conns)
    /\ console' = <<"Error processing query:">>
    /\ UNCHANGED <<state, cache, runs, reqs, now, lim, researchFailed>>

\* POST /query with no query, or a falsy one
HttpQueryMissing ==
    /\ nsub < lim.subs
    /\ \E query \in {Undefined, ""} :
          /\ ~Truthy(query)
          /\ resp' = NoQueryResponse
    /\ nsub' = nsub + 1
    /\ conns' = Silent(conns)
    /\ console' = <<>>
    /\ UNCHANGED <<state, cache, runs, reqs, now, lim, researchFailed>>

\* POST /query with a query: up to the await of ART_CACHE.get
HttpQueryBeginOf(query) ==
    /\ nsub < lim.subs
    /\ Truthy(query)
    /\ reqs' = [reqs EXCEPT ![query] = @ + 1]
    /\ nsub' = nsub + 1
    /\ resp' = NoResponse
    /\ conns' = Silent(conns)
    /\ console' = <<>>
    /\ researchFailed' = FALSE
    /\ UNCHANGED <<state, cache, runs, now, lim>>

HttpQueryBegin == \E query \in Queries : HttpQueryBeginOf(query)

\* ART_CACHE.get returned an entry
HttpQueryCacheHitOf(query) ==
    /\ reqs[query] > 0
    /\ Has(cache, CacheKey(query))
    /\ reqs' = [reqs EXCEPT ![query] = @ - 1]
    /\ setState(CachedState(query, JSONParse(cache[CacheKey(query)]), now))
    /\ resp' = CachedResponse
    /\ console' = <<>>
    /\ researchFailed' = FALSE
    /\ UNCHANGED <<cache, runs, now, nsub, lim>>

HttpQueryCacheHit == \E query \in Queries : HttpQueryCacheHitOf(query)

\* ART_CACHE.get returned nothing, or threw (logged, then as if nothing)
HttpQueryCacheMissOf(query, readOk) ==
    /\ reqs[query] > 0
    /\ readOk => ~Has(cache, CacheKey(query))
    /\ reqs' = [reqs EXCEPT ![query] = @ - 1]
    /\ setState(AnalyzingState(query, now))
    /\ runs' = schedule(runs, query)
    /\ resp' = AcceptedResponse
    /\ console' = IF readOk THEN <<>> ELSE <<"Error checking cache:">>
    /\ researchFailed' = FALSE
    /\ UNCHANGED <<cache, now, nsub, lim>>

HttpQueryCacheMiss ==
    \E query \in Queries, readOk \in BOOLEAN : HttpQueryCacheMissOf(query, readOk)

SendErrorMessage == "WebSocket send failed"

\* POST /query with a connected socket whose send throws, the exception
\* leaving setState: a cached entry's setState (103) throws into the inner
\* catch, the reset (123) throws into the outer one; nothing is scheduled
HttpQuerySendThrows ==
    /\ SendThrows(conns)
    /\ \E query \in Queries, readOk \in BOOLEAN :
          LET hit == readOk /\ Has(cache, CacheKey(query))
              cached == CachedState(query, JSONParse(cache[CacheKey(query)]), now)
          IN /\ reqs[query] > 0
             /\ reqs' = [reqs EXCEPT ![query] = @ - 1]
             /\ state' = AnalyzingState(query, now)
             /\ conns' = IF hit
                          THEN onStateUpdate(onStateUpdate(Silent(conns), cached), state')
                          ELSE onStateUpdate(Silent(conns), state')
             /\ console' = IF hit \/ ~readOk
                            THEN <<"Error checking cache:", "Error processing query:">>
                            ELSE <<"Error processing query:">>
    /\ resp' = FailedResponse
    /\ researchFailed' = FALSE
    /\ UNCHANGED <<cache, runs, now, nsub, lim>>

\* a status request that stamps the state
HttpStatusStamps ==
    /\ resp' = StatusResponse(state)
    /\ state' = Spread(state, [lastUpdated |-> toISOString(now)])
    /\ conns' = Silent(conns)
    /\ console' = <<>>
    /\ UNCHANGED <<cache, runs, reqs, now, nsub, lim, researchFailed>>

HttpStatus ==
    /\ resp' = StatusResponse(state)
    /\ conns' = Silent(conns)
    /\ console' = <<>>
    /\ UNCHANGED <<state, cache, runs, reqs, now, nsub, lim, researchFailed>>

HttpResults ==
    /\ resp' = ResultsResponse(state)
    /\ conns' = Silent(conns)
    /\ console' = <<>>
    /\ UNCHANGED <<state, cache, runs, reqs, now, nsub, lim, researchFailed>>

HttpDefault ==
    /\ resp' = DefaultResponse
    /\ conns' = Silent(conns)
    /\ console' = <<>>
    /\ UNCHANGED <<state, cache, runs, reqs, now, nsub, lim, researchFailed>>

(***************************************************************************)
(* processArtQuery: one action per await                                   *)
(***************************************************************************)
\* an invocation whose annotation call never settles
AtUnlessAnnotating(r, pc) == runs[r].pc = pc /\ pc # "annotate"

At(r, pc) == runs[r].pc = pc

\* processArtQuery returns: its locals are gone
Finish(r) == [runs EXCEPT ![r] = [NoRun EXCEPT !.pc = "done"]]

LaunchErrorMessage == "Unable to launch browser"

BrowserCloseErrorMessage == "Unable to close browser"

\* the scheduled task starts: researchArtworks up to the completion call
StartRun(r) ==
    /\ At(r, "scheduled")
    /\ setState(StageState(state, "researching", now))
    /\ runs' = [runs EXCEPT ![r].pc = "research"]
    /\ resp' = NoResponse
    /\ console' = <<>>
    /\ UNCHANGED <<cache, reqs, now, nsub, lim, researchFailed>>

\* the completion call failed or its text gave no list: researchArtworks
\* throws and the catch of processArtQuery writes the error
ResearchFails(r) ==
    /\ At(r, "research")
    /\ \E reply \in lim.research :
          LET res == researchArtworks(reply, now) IN
          /\ ~res.ok
          /\ setState(ErrorState(state, res.error, now))
    /\ runs' = Finish(r)
    /\ resp' = NoResponse
    /\ console' = <<"Error researching artworks:", "Error in art query processing:">>
    /\ researchFailed' = TRUE
    /\ UNCHANGED <<cache, reqs, now, nsub, lim>>

\* researchArtworks returns; fetchArtworkImages up to puppeteer.launch
ResearchSucceeds(r) ==
    /\ At(r, "research")
    /\ \E reply \in lim.research :
          LET res == researchArtworks(reply, now) IN
          /\ res.ok
          /\ runs' = [runs EXCEPT ![r].pc = "launch", ![r].cands = res.artworks]
    /\ setState(StageState(state, "fetching", now))
    /\ resp' = NoResponse
    /\ console' = <<>>
    /\ UNCHANGED <<cache, reqs, now, nsub, lim, researchFailed>>

\* puppeteer.launch throws, outside the try of fetchArtworkImages
LaunchFails(r) ==
    /\ At(r, "launch")
    /\ setState(ErrorState(state, LaunchErrorMessage, now))
    /\ runs' = Finish(r)
    /\ resp' = NoResponse
    /\ console' = <<"Error in art query processing:">>
    /\ UNCHANGED <<cache, reqs, now, nsub, lim, researchFailed>>

\* where the loop of fetchArtworkImages goes after candidate k
AfterCandidate(run) ==
    IF run.k < Len(run.cands)
    THEN [run EXCEPT !.pc = "resolve", !.k = @ + 1]
    ELSE [run EXCEPT !.pc = "browserclose"]

LaunchOk(r) ==
    /\ At(r, "launch")
    /\ runs' = [runs EXCEPT ![r] = AfterCandidate([@ EXCEPT !.k = 0])]
    /\ resp' = NoResponse
    /\ conns' = Silent(conns)
    /\ console' = <<>>
    /\ UNCHANGED <<state, cache, reqs, now, nsub, lim, researchFailed>>

\* the page work of candidate k is over: the item is pushed, and unless
\* it threw page.close() is awaited
ResolveReturn(r) ==
    /\ At(r, "resolve")
    /\ \E reply \in lim.resolver :
          LET run == runs[r]
              pushed == [run EXCEPT !.imgs = PushResolved(@, run.cands[run.k], reply),
                                    !.failed = IF reply = "throws" \/ ~Truthy(reply)
                                               THEN @ \cup {run.k} ELSE @]
          IN /\ runs' = [runs EXCEPT ![r] = IF reply = "throws"
                                            THEN AfterCandidate(pushed)
                                            ELSE [pushed EXCEPT !.pc = "pageclose"]]
             /\ console' = IF reply = "throws" THEN <<"Error fetching image for">> ELSE <<>>
    /\ resp' = NoResponse
    /\ conns' = Silent(conns)
    /\ UNCHANGED <<state, cache, reqs, now, nsub, lim, researchFailed>>

\* page.close() returns, or throws: then the catch of the per-item try
\* pushes a placeholder
PageCloseReturn(r) ==
    /\ At(r, "pageclose")
    /\ \E ok \in lim.pageClose :
          LET run == runs[r] IN
          /\ runs' = [runs EXCEPT ![r] =
                         IF ok THEN AfterCandidate(run)
                         ELSE AfterCandidate([run EXCEPT
                                  !.imgs = PushAfterCloseThrows(@, run.cands[run.k]),
                                  !.closeFailed = @ \cup {run.k}])]
          /\ console' = IF ok THEN <<>> ELSE <<"Error fetching image for">>
    /\ resp' = NoResponse
    /\ conns' = Silent(conns)
    /\ UNCHANGED <<state, cache, reqs, now, nsub, lim, researchFailed>>

\* browser.close() in the finally block throws
BrowserCloseFails(r) ==
    /\ At(r, "browserclose")
    /\ setState(ErrorState(state, BrowserCloseErrorMessage, now))
    /\ runs' = Finish(r)
    /\ resp' = NoResponse
    /\ console' = <<"Error in art query processing:">>
    /\ UNCHANGED <<cache, reqs, now, nsub, lim, researchFailed>>

\* fetchArtworkImages returns; annotateArtworks up to its first completion
\* call (with nothing to annotate it returns at once and the run completes)
BrowserCloseOk(r) ==
    /\ At(r, "browserclose")
    /\ LET annotating == StageState(state, "annotating", now) IN
       IF Len(runs[r].imgs) > 0
       THEN /\ setState(annotating)
            /\ runs' = [runs EXCEPT ![r].pc = "annotate", ![r].k = 1]
       ELSE /\ state' = CompleteState(annotating, <<>>, now)
            /\ conns' = onStateUpdate(onStateUpdate(Silent(conns), annotating), state')
            /\ runs' = Finish(r)
    /\ resp' = NoResponse
    /\ console' = <<>>
    /\ UNCHANGED <<cache, reqs, now, nsub, lim, researchFailed>>

\* the completion call of item k returned and more items follow
AnnotateNext(r) ==
    /\ At(r, "annotate")
    /\ runs[r].k < Len(runs[r].imgs)
    /\ \E reply \in lim.annotation :
          LET run == runs[r] IN
          /\ runs' = [runs EXCEPT ![r] =
                         [run EXCEPT !.anns = Append(@, Annotate(run.imgs[run.k], reply)),
                                     !.annFailed = IF AnnotationFails(reply)
                                                   THEN @ \cup {run.k} ELSE @,
                                     !.k = @ + 1]]
          /\ console' = IF AnnotationFails(reply) THEN <<"Error annotating">> ELSE <<>>
    /\ resp' = NoResponse
    /\ conns' = Silent(conns)
    /\ UNCHANGED <<state, cache, reqs, now, nsub, lim, researchFailed>>

\* the completion call of the last item returned: annotateArtworks returns,
\* the state is set to complete and ART_CACHE.put is awaited
AnnotateLast(r) ==
    /\ At(r, "annotate")
    /\ runs[r].k = Len(runs[r].imgs)
    /\ \E reply \in lim.annotation :
          LET run == runs[r]
              works == Append(run.anns, Annotate(run.imgs[run.k], reply))
          IN /\ runs' = [runs EXCEPT ![r] =
                            [run EXCEPT !.anns = works,
                                        !.annFailed = IF AnnotationFails(reply)
                                                      THEN @ \cup {run.k} ELSE @,
                                        !.pc = IF Len(works) > 0 THEN "cacheput" ELSE "done"]]
             /\ setState(CompleteState(state, works, now))
             /\ console' = IF AnnotationFails(reply) THEN <<"Error annotating">> ELSE <<>>
    /\ resp' = NoResponse
    /\ UNCHANGED <<cache, reqs, now, nsub, lim, researchFailed>>

\* a put under the query the session has now
CachePutOkUnderCurrentQuery(r) ==
    /\ At(r, "cacheput")
    /\ cache' = Spread(cache, CacheKey(IF Has(state, "currentQuery")
                                       THEN state.currentQuery ELSE Undefined) :>
                                  JSONStringify([artworks |-> runs[r].anns]))
    /\ runs' = Finish(r)
    /\ resp' = NoResponse
    /\ conns' = Silent(conns)
    /\ console' = <<>>
    /\ UNCHANGED <<state, reqs, now, nsub, lim, researchFailed>>

CachePutOk(r) ==
    /\ At(r, "cacheput")
    /\ cache' = Spread(cache, CacheKey(runs[r].query) :>
                                  JSONStringify([artworks |-> runs[r].anns]))
    /\ runs' = Finish(r)
    /\ resp' = NoResponse
    /\ conns' = Silent(conns)
    /\ console' = <<>>
    /\ UNCHANGED <<state, reqs, now, nsub, lim, researchFailed>>

\* a failed ART_CACHE.put that reaches the catch of processArtQuery
CachePutFailsIsFatal(r) ==
    /\ At(r, "cacheput")
    /\ setState(ErrorState(state, "Unable to write cache", now))
    /\ runs' = Finish(r)
    /\ resp' = NoResponse
    /\ console' = <<"Error in art query processing:">>
    /\ UNCHANGED <<cache, reqs, now, nsub, lim, researchFailed>>

\* ART_CACHE.put throws: logged
CachePutFails(r) ==
    /\ At(r, "cacheput")
    /\ runs' = Finish(r)
    /\ resp' = NoResponse
    /\ conns' = Silent(conns)
    /\ console' = <<"Error caching results:">>
    /\ UNCHANGED <<state, cache, reqs, now, nsub, lim, researchFailed>>

\* the state a run's next stage write hands to setState
IntendedWrites(r) ==
    LET run == runs[r] IN
    CASE run.pc = "scheduled" -> {StageState(state, "researching", now)}
      [] run.pc = "research" -> {StageState(state, "fetching", now)}
      [] run.pc = "browserclose" -> {StageState(state, "annotating", now)}
      [] run.pc = "annotate" /\ run.k = Len(run.imgs) ->
            {CompleteState(state, Append(run.anns, Annotate(run.imgs[run.k], reply)), now) :
                reply \in lim.annotation}
      [] OTHER -> {}

\* a stage write of a run with a connected socket whose send throws, the
\* exception leaving setState: the state is replaced, the catch of
\* processArtQuery writes the error, that write throws too and the run ends
StageWriteThrows(r) ==
    /\ SendThrows(conns)
    /\ \E intended \in IntendedWrites(r) :
          /\ state' = ErrorState(intended, SendErrorMessage, now)
          /\ conns' = onStateUpdate(onStateUpdate(Silent(conns), intended), state')
    /\ runs' = Finish(r)
    /\ resp' = NoResponse
    /\ console' = <<"Error in art query processing:">>
    /\ UNCHANGED <<cache, reqs, now, nsub, lim, researchFailed>>

(***************************************************************************)
(* The push channel                                                        *)
(***************************************************************************)
onConnect(c) ==
    /\ ~conns[c].open
    /\ conns' = [Silent(conns) EXCEPT ![c] = [open |-> TRUE, broken |-> FALSE, sent |-> ConnectMessages(state)]]
    /\ resp' = NoResponse
    /\ console' = <<>>
    /\ UNCHANGED <<state, cache, runs, reqs, now, nsub, lim, researchFailed>>

\* the client goes away
onClose(c) ==
    /\ conns[c].open
    /\ conns' = [Silent(conns) EXCEPT ![c] = [open |-> FALSE, broken |-> FALSE, sent |-> <<>>]]
    /\ resp' = NoResponse
    /\ console' = <<>>
    /\ UNCHANGED <<state, cache, runs, reqs, now, nsub, lim, researchFailed>>

\* the socket of a connected channel gets into a state in which send throws
ChannelBreaks(c) ==
    /\ conns[c].open
    /\ ~conns[c].broken
    /\ conns' = [Silent(conns) EXCEPT ![c].broken = TRUE]
    /\ resp' = NoResponse
    /\ console' = <<>>
    /\ UNCHANGED <<state, cache, runs, reqs, now, nsub, lim, researchFailed>>

MessageErrorMessage ==
    [type |-> "error", data |-> [message |-> "Failed to process message",
                                 error |-> "Unexpected token"]]

\* a message JSON.parse rejects
onMessageUnparseable(c) ==
    /\ conns[c].open
    /\ nsub < lim.subs
    /\ nsub' = nsub + 1
    /\ conns' = Send(Silent(conns), c, <<MessageErrorMessage>>)
    /\ resp' = NoResponse
    /\ console' = <<"Error handling WebSocket message:">>
    /\ UNCHANGED <<state, cache, runs, reqs, now, lim, researchFailed>>

\* a message whose type is not 'query'
onMessageOther(c) ==
    /\ conns[c].open
    /\ nsub < lim.subs
    /\ nsub' = nsub + 1
    /\ resp' = NoResponse
    /\ conns' = Silent(conns)
    /\ console' = <<>>
    /\ UNCHANGED <<state, cache, runs, reqs, now, lim, researchFailed>>

\* {type: 'query', query}, the query possibly missing
onMessageQueryOf(c, query) ==
    /\ conns[c].open
    /\ nsub < lim.subs
    /\ nsub' = nsub + 1
    /\ state' = AnalyzingState(query, now)
    /\ conns' = Send(onStateUpdate(Silent(conns), state'), c,
                     <<[type |-> "state",
                        data |-> [processingStage |-> "analyzing"] @@ Prop("query", query)]>>)
    /\ runs' = schedule(runs, query)
    /\ resp' = NoResponse
    /\ console' = <<>>
    /\ researchFailed' = FALSE
    /\ UNCHANGED <<cache, reqs, now, lim>>

onMessageQuery(c) == \E query \in Queries \cup {Undefined} : onMessageQueryOf(c, query)

\* URLs outside /agents/<namespace>/<name>: routeAgentRequest resolves to
\* nothing for them and no agent's onRequest runs
UnroutedPaths == {"/"}

\* the worker's fetch for such a URL
FetchUnrouted ==
    /\ \E path \in UnroutedPaths : resp' = NotFoundResponse
    /\ conns' = Silent(conns)
    /\ console' = <<>>
    /\ UNCHANGED <<state, cache, runs, reqs, now, nsub, lim, researchFailed>>

(***************************************************************************)
(* The front end: App, its socket being one channel of the agent.  A       *)
(* message the agent sends is handled by ws.onmessage in the step that     *)
(* sends it.                                                               *)
(***************************************************************************)
ClientChannel == CHOOSE c \in DOMAIN conns : \A d \in DOMAIN conns : c <= d

\* ws.onmessage for one message
OnMessage(cl, msg) ==
    CASE msg.type = "state" -> [cl EXCEPT !.status = msg.data.processingStage]
      [] msg.type = "results" -> [cl EXCEPT !.results = TRUE, !.isLoading = FALSE]
      [] msg.type = "error" -> [cl EXCEPT !.isLoading = FALSE, !.status = "error"]
      [] OTHER -> cl

RECURSIVE OnMessages(_, _)
OnMessages(cl, msgs) ==
    IF msgs = <<>> THEN cl ELSE OnMessages(OnMessage(cl, Head(msgs)), Tail(msgs))

\* the component after the messages of this step, if its socket is open
Delivered(cl) ==
    IF cl.socket = "open" THEN OnMessages(cl, conns'[ClientChannel].sent) ELSE cl

\* the first lines of handleSearch
Searching(cl) ==
    [cl EXCEPT !.isLoading = TRUE, !.status = "analyzing", !.results = FALSE]

\* the catch blocks of sendQueryViaHttp and checkStatus
Caught(cl) == [cl EXCEPT !.isLoading = FALSE, !.status = "error", !.polling = "no"]

\* ws.onopen
ClientConnects ==
    /\ client.socket = "connecting"
    /\ onConnect(ClientChannel)
    /\ client' = Delivered([client EXCEPT !.socket = "open"])

\* ws.onclose: the effect has run, no new socket is made
ClientSocketCloses ==
    /\ client.socket = "open"
    /\ onClose(ClientChannel)
    /\ client' = [client EXCEPT !.socket = "closed"]

\* handleSearch with the socket open: the query goes over the socket
ClientSearchWs ==
    /\ ~client.isLoading
    /\ client.socket = "open"
    /\ \E query \in Queries : onMessageQueryOf(ClientChannel, query)
    /\ client' = Delivered(Searching(client))

\* handleSearch without an open socket: sendQueryViaHttp up to its fetch
ClientSearchHttp ==
    /\ ~client.isLoading
    /\ client.socket # "open"
    /\ client.polling = "no"
    /\ HttpQueryBegin
    /\ client' = [Searching(client) EXCEPT !.polling = "post"]

\* the POST is answered: pollForResults sets the timer, or the catch runs
ClientPostAnswered ==
    /\ client.polling = "post"
    /\ HttpQueryCacheHit \/ HttpQueryCacheMiss
    /\ client' = Delivered(IF resp'.status = 200
                           THEN [client EXCEPT !.polling = "timer"]
                           ELSE Caught(client))

\* checkStatus up to its second fetch, or to setting the timer again
ClientPollStatus ==
    /\ client.polling = "timer"
    /\ HttpStatus
    /\ client' = [client EXCEPT !.status = resp'.body.state,
                                !.polling = IF resp'.body.state = "complete"
                                            THEN "results" ELSE "timer"]

\* the results are fetched, or the answer is not ok and the catch runs: the
\* flag is cleared and no timer is set
ClientPollResults ==
    /\ client.polling = "results"
    /\ HttpResults
    /\ client' = IF resp'.status = 200
                  THEN [client EXCEPT !.results = TRUE, !.isLoading = FALSE,
                                      !.polling = "no"]
                  ELSE Caught(client)

\* a fetch of checkStatus rejects
ClientFetchFails ==
    /\ client.polling \in {"timer", "results"}
    /\ client' = Caught(client)
    /\ resp' = NoResponse
    /\ conns' = Silent(conns)
    /\ console' = <<"Error checking status:">>
    /\ UNCHANGED <<state, cache, runs, reqs, now, nsub, lim, researchFailed>>

(***************************************************************************)
(* The environment                                                         *)
(***************************************************************************)
Tick ==
    /\ now < MaxTime
    /\ now' = now + 1
    /\ resp' = NoResponse
    /\ conns' = Silent(conns)
    /\ console' = <<>>
    /\ UNCHANGED <<state, cache, runs, reqs, nsub, lim, researchFailed>>

\* an entry outlives its expirationTtl
CacheExpire ==
    /\ \E key \in DOMAIN cache :
          cache' = [j \in DOMAIN cache \ {key} |-> cache[j]]
    /\ resp' = NoResponse
    /\ conns' = Silent(conns)
    /\ console' = <<>>
    /\ UNCHANGED <<state, runs, reqs, now, nsub, lim, researchFailed>>

\* the runs alone: a submission over HTTP, the run it schedules, the clock
RunStep(r) ==
    \/ StartRun(r)
    \/ ResearchFails(r)
    \/ ResearchSucceeds(r)
    \/ LaunchFails(r)
    \/ LaunchOk(r)
    \/ ResolveReturn(r)
    \/ PageCloseReturn(r)
    \/ BrowserCloseFails(r)
    \/ BrowserCloseOk(r)
    \/ AnnotateNext(r)
    \/ AnnotateLast(r)
    \/ CachePutOk(r)
    \/ CachePutFails(r)

\* a step of a run, its messages reaching the component
AgentRunStep ==
    /\ \E r \in RunIds : RunStep(r)
    /\ client' = Delivered(client)

Next ==
    /\ UNCHANGED client
    /\ \/ HttpQueryUnparseable
       \/ HttpQueryMissing
       \/ HttpQueryBegin
       \/ HttpQueryCacheHit
       \/ HttpQueryCacheMiss
       \/ HttpStatus
       \/ HttpResults
       \/ HttpDefault
       \/ FetchUnrouted
       \/ \E r \in RunIds : RunStep(r)
       \/ \E c \in Channels :
             \/ onConnect(c)
             \/ onClose(c)
             \/ onMessageUnparseable(c)
             \/ onMessageOther(c)
             \/ onMessageQuery(c)
       \/ CacheExpire

NextPipeline ==
    /\ UNCHANGED client
    /\ \/ HttpQueryBegin
       \/ HttpQueryCacheMiss
       \/ \E r \in RunIds : RunStep(r)
       \/ Tick

\* the fan-out: a submission over HTTP and its run, channels that connect,
\* close and break
NextFanOut ==
    /\ UNCHANGED client
    /\ \/ HttpQueryBegin
       \/ HttpQueryCacheMiss
       \/ HttpQuerySendThrows
       \/ \E r \in RunIds : RunStep(r) \/ StageWriteThrows(r)
       \/ \E c \in DOMAIN conns :
             \/ onConnect(c)
             \/ onClose(c)
             \/ ChannelBreaks(c)

Spec == Init /\ [][Next]_vars

SpecFanOut == InitFanOut /\ [][NextFanOut]_vars

\* the front end and the one session it talks to
NextClient ==
    \/ ClientConnects
    \/ ClientSocketCloses
    \/ ClientSearchWs
    \/ ClientSearchHttp
    \/ ClientPostAnswered
    \/ ClientPollStatus
    \/ ClientPollResults
    \/ ClientFetchFails
    \/ AgentRunStep

SpecClient == InitClient /\ [][NextClient]_vars

\* the run is executed and its calls settle; the requests of the front end
\* are answered and its timer fires
FairClient ==
    /\ InitClient
    /\ [][NextClient]_vars
    /\ WF_vars(AgentRunStep)
    /\ WF_vars(ClientPostAnswered)
    /\ WF_vars(ClientPollStatus)
    /\ WF_vars(ClientPollResults)

SpecPipeline == InitPipeline /\ [][NextPipeline]_vars

\* every scheduled invocation is run, and every call it awaits settles
FairPipeline ==
    /\ InitPipeline
    /\ [][NextPipeline]_vars
    /\ \A r \in 1..PipeSubs : WF_vars(RunStep(r) /\ UNCHANGED client)

(***************************************************************************)
(* Claims                                                                  *)
(***************************************************************************)
Stage == StageOrIdle(state)

NotReady(r) == Has(r.body, "message") /\ r.body.message = "Results not ready yet"

\* C1: whenever the results request is answered, the answer is the
\* not-ready response (carrying the stage, idle when unset) if the stage is
\* anything but complete, and {query, artworks} of the Query State if and
\* only if the stage is complete.
C1_ResultsOnlyWhenComplete ==
    resp.op = "results" =>
        IF Stage = "complete"
        THEN /\ ~NotReady(resp)
             /\ Has(resp.body, "artworks")
             /\ resp.body.artworks = Wire(state.selectedWorks)
             /\ Has(state, "currentQuery") =>
                   Has(resp.body, "query") /\ resp.body.query = state.currentQuery
        ELSE /\ NotReady(resp)
             /\ ~Has(resp.body, "artworks")
             /\ resp.body.state = Stage

\* results asked while a run is past research but not complete, with the
\* works of an earlier run still in the state
C1_Witness ==
    /\ resp.op = "results"
    /\ NotReady(resp)
    /\ Stage \in {"researching", "fetching", "annotating", "error"}
    /\ Has(state, "selectedWorks")

\* C2: in every state whose stage is complete, selectedWorks is present
\* and is not empty.
C2_CompleteHasWorks ==
    Stage = "complete" => Has(state, "selectedWorks") /\ Len(state.selectedWorks) > 0

\* complete reached by a cache hit
C2_Witness ==
    /\ Stage = "complete"
    /\ resp = CachedResponse
    /\ Len(state.selectedWorks) > 0

\* C3: when a run has completed, selectedWorks has as many items as the
\* research stage produced candidates and its i-th item is the i-th
\* candidate, whatever failed per item in the two later stages.
C3_WorksAreTheCandidates ==
    \A r \in RunIds :
        runs[r].pc = "cacheput" =>
            /\ Len(state.selectedWorks) = Len(runs[r].cands)
            /\ \A i \in 1..Len(runs[r].cands) :
                  state.selectedWorks[i].id = runs[r].cands[i].id

PlaceholderOf(candidate) ==
    "https://placekitten.com/600/400?text=" \o Str(candidate.title)

\* C8: every item the image stage produced, and every item of a completed
\* result, has an imageUrl that is neither absent, null nor empty; the
\* items of a candidate whose page threw or gave nothing carry the
\* placeholder URL.
C8_ImageUrlNeverEmpty ==
    /\ \A r \in RunIds :
          \A j \in 1..Len(runs[r].imgs) :
              LET item == runs[r].imgs[j] IN
              /\ Has(item, "imageUrl")
              /\ item.imageUrl \notin {"", Null, Undefined}
              /\ \A i \in runs[r].failed :
                    item.id = runs[r].cands[i].id =>
                        item.imageUrl = PlaceholderOf(runs[r].cands[i])
    /\ Stage = "complete" =>
          \A j \in 1..Len(state.selectedWorks) :
              /\ Has(state.selectedWorks[j], "imageUrl")
              /\ state.selectedWorks[j].imageUrl \notin {"", Null, Undefined}

\* a completed run of two candidates, the second without an image
C8_Witness ==
    \E r \in RunIds :
        /\ runs[r].pc = "cacheput"
        /\ runs[r].failed = {2}
        /\ Len(state.selectedWorks) = 2
        /\ state.selectedWorks[2].imageUrl = PlaceholderOf(runs[r].cands[2])
        /\ state.selectedWorks[1].imageUrl \in Urls

FiveAnnotationFields ==
    {"historicalContext", "artisticStyle", "biblicalNarrative",
     "interestingDetails", "uniqueInterpretation"}

FixedText == "Information could not be generated at this time."

\* C9: an item whose annotation call or extraction failed is in the run's
\* annotated list at the position it had in the list being annotated, with
\* the same id, title and image and the five annotation fields set to the
\* fixed text; the annotation step never ends the run, the items after the
\* failed one are annotated, and the step annotating the last item writes
\* complete with the whole list.
C9_FailedAnnotationKeepsItem ==
    /\ [](\A r \in RunIds :
            LET run == runs[r] IN
            /\ run.pc = "annotate" => Len(run.anns) = run.k - 1
            /\ run.pc = "cacheput" => Len(run.anns) = Len(run.imgs)
            /\ run.annFailed # {} => run.pc \in {"annotate", "cacheput"}
            /\ \A i \in run.annFailed :
                  /\ i <= Len(run.anns)
                  /\ run.anns[i].id = run.imgs[i].id
                  /\ run.anns[i].title = run.imgs[i].title
                  /\ run.anns[i].imageUrl = run.imgs[i].imageUrl
                  /\ DOMAIN run.anns[i].annotations = FiveAnnotationFields
                  /\ \A f \in FiveAnnotationFields :
                        run.anns[i].annotations[f] =
                            IF f = "interestingDetails" THEN <<FixedText>> ELSE FixedText)
    /\ [][\A r \in RunIds :
             (runs[r].pc = "annotate" /\ runs'[r] # runs[r]) =>
                 /\ runs'[r].pc \in {"annotate", "cacheput"}
                 /\ Len(runs'[r].anns) = Len(runs[r].anns) + 1
                 /\ runs'[r].pc = "cacheput" =>
                       /\ StageOrIdle(state') = "complete"
                       /\ state'.selectedWorks = runs'[r].anns]_vars

\* a completed run whose first item failed to annotate and whose second did not
C9_Witness ==
    \E r \in RunIds :
        /\ runs[r].pc = "cacheput"
        /\ runs[r].annFailed = {1}
        /\ Len(state.selectedWorks) = 2
        /\ state.selectedWorks[1].annotations.historicalContext = FixedText
        /\ state.selectedWorks[2].annotations.historicalContext = "generated text"

\* C10: once the image stage is through the candidates, its list holds one
\* item per candidate in order, with the placeholder URL exactly for the
\* candidates whose resolution failed and a resolver URL for the others.
C10_ImageFaultIsolation ==
    \A r \in RunIds :
        LET run == runs[r] IN
        run.pc \in {"browserclose", "annotate", "cacheput"} =>
            /\ Len(run.imgs) = Len(run.cands)
            /\ \A i \in 1..Len(run.cands) :
                  /\ run.imgs[i].id = run.cands[i].id
                  /\ i \in run.failed => run.imgs[i].imageUrl = PlaceholderOf(run.cands[i])
                  /\ i \notin run.failed => run.imgs[i].imageUrl \in Urls

\* a submission of query, over either transport, is taken up by the agent
Submitted(query) ==
    \/ HttpQueryCacheHitOf(query)
    \/ HttpQueryCacheMissOf(query, TRUE)
    \/ \E c \in Channels : onMessageQueryOf(c, query)

\* C4: a submission of a query whose results a completed run has put in
\* the cache takes the session to complete with the cached artworks and
\* schedules no run (so no completion call and no page is made for it).
C4_SecondSubmissionServedFromCache ==
    [][\A query \in Queries :
          (Submitted(query) /\ Has(cache, CacheKey(query))) =>
              /\ StageOrIdle(state') = "complete"
              /\ state'.selectedWorks = JSONParse(cache[CacheKey(query)]).artworks
              /\ runs' = runs]_vars

\* C5: once a newer submission has scheduled its run, no step of an older
\* run changes the Query State.
C5_StaleWritesDiscarded ==
    [][\A r \in RunIds, newer \in RunIds :
          (r < newer /\ runs[newer].pc # "none" /\ RunStep(r)) => state' = state]_vars

\* C6: the step in which a channel connects leaves the Query State alone
\* and sends the channel a state message with the current stage (idle when
\* unset), followed by a results message with the current query and
\* artworks if and only if the stage is complete.
C6_ConnectGetsCurrentState ==
    [][\A c \in Channels :
          (~conns[c].open /\ conns'[c].open) =>
              LET sent == conns'[c].sent IN
              /\ state' = state
              /\ Len(sent) >= 1
              /\ sent[1].type = "state"
              /\ sent[1].data.processingStage = Stage
              /\ IF Stage = "complete"
                 THEN /\ Len(sent) = 2
                      /\ sent[2].type = "results"
                      /\ sent[2].data.artworks = Wire(state.selectedWorks)
                      /\ Has(state, "currentQuery") =>
                            sent[2].data.query = state.currentQuery
                 ELSE Len(sent) = 1]_vars

\* a channel that connected to a session already complete: the state
\* message of onConnect (no lastUpdated) and then the results
C6_Witness ==
    \E c \in Channels :
        /\ conns[c].open
        /\ Stage = "complete"
        /\ Len(conns[c].sent) = 2
        /\ conns[c].sent[1].type = "state"
        /\ ~Has(conns[c].sent[1].data, "lastUpdated")
        /\ conns[c].sent[2].type = "results"
        /\ Len(conns[c].sent[2].data.artworks) > 0

\* C7: the step in which research fails ends the run with the stage error
\* and a non-empty error message, and from then until the next submission
\* the stage is never fetching, annotating or complete and the results
\* request is answered not-ready.
C7_ResearchFailureIsFinal ==
    /\ [][\A r \in RunIds :
             ResearchFails(r) =>
                 /\ StageOrIdle(state') = "error"
                 /\ Has(state', "error")
                 /\ state'.error \notin {"", Null, Undefined}
                 /\ runs'[r].pc = "done"]_vars
    /\ [](researchFailed =>
             /\ Stage \notin {"fetching", "annotating", "complete"}
             /\ resp.op = "results" => NotReady(resp))

\* what POST /query does to the Query State and the scheduled runs, from
\* the current state
HttpSubmitEffect(query) ==
    IF Has(cache, CacheKey(query))
    THEN [state |-> CachedState(query, JSONParse(cache[CacheKey(query)]), now),
          runs |-> runs]
    ELSE [state |-> AnalyzingState(query, now),
          runs |-> schedule(runs, query)]

\* C11: a query message on the push channel leaves the Query State and
\* the scheduled runs as POST /query with the same query would from the
\* same state: complete from the cache and no run on a hit, analyzing and
\* a new run on a miss.
C11_PushSubmitLikeHttp ==
    [][\A c \in Channels, query \in Queries :
          onMessageQueryOf(c, query) =>
              /\ state' = HttpSubmitEffect(query).state
              /\ runs' = HttpSubmitEffect(query).runs]_vars

\* C12: a POST /query whose body does not parse or has no query, and a
\* push message that does not parse or is a query message with no query,
\* is answered with an error response or error message, changes neither
\* the Query State nor the scheduled runs.
C12_MalformedSubmissionRejected ==
    [][/\ (HttpQueryUnparseable \/ HttpQueryMissing) =>
              /\ resp'.status >= 400
              /\ Has(resp'.body, "error")
              /\ state' = state
              /\ runs' = runs
       /\ \A c \in Channels :
              (onMessageUnparseable(c) \/ onMessageQueryOf(c, Undefined)) =>
                  /\ \E i \in 1..Len(conns'[c].sent) : conns'[c].sent[i].type = "error"
                  /\ state' = state
                  /\ runs' = runs]_vars

ServiceInfo(r) ==
    /\ Has(r.body, "message")
    /\ r.body.message = "Christian Art History AI Agent"
    /\ Has(r.body, "endpoints")

\* C13: every answer to a request that is not for the query, status or
\* results endpoint, whether it reached an agent or was the bare root URL
\* at the worker, is the service-info response: the message 'Christian Art
\* History AI Agent' and an endpoints list.
C13_UnmatchedPathGetsServiceInfo ==
    resp.op \in {"default", "fetch"} => ServiceInfo(resp)

StageOrder == <<"analyzing", "researching", "fetching", "annotating", "complete">>

\* the place in StageOrder of the last stage a run at pc has behind it
\* (analyzing is written by the submission that scheduled it)
StageIndex(pc) ==
    CASE pc = "scheduled" -> 1
      [] pc = "research" -> 2
      [] pc \in {"launch", "resolve", "pageclose", "browserclose"} -> 3
      [] pc = "annotate" -> 4
      [] pc = "cacheput" -> 5

\* C14: the submission that misses the cache writes analyzing and
\* schedules its run; every step of that run either writes nothing or
\* writes the stage that follows the last one it has behind it in
\* analyzing, researching, fetching, annotating, complete, or, before
\* complete, writes error and ends the run.
C14_StagesInOrder ==
    [][/\ \A query \in Queries, readOk \in BOOLEAN :
            HttpQueryCacheMissOf(query, readOk) =>
                /\ state'.processingStage = StageOrder[1]
                /\ \E r \in RunIds : runs[r].pc = "none" /\ runs'[r].pc = "scheduled"
       /\ \A r \in RunIds :
            (runs[r].pc \notin {"none", "done"} /\ runs'[r] # runs[r]) =>
                LET before == StageIndex(runs[r].pc) IN
                IF runs'[r].pc = "done"
                THEN \/ runs[r].pc = "cacheput" /\ state' = state
                     \/ before < Len(StageOrder) /\ state'.processingStage = "error"
                ELSE LET after == StageIndex(runs'[r].pc) IN
                     \/ after = before /\ state' = state
                     \/ /\ after = before + 1
                        /\ state'.processingStage = StageOrder[after]]_vars

\* a run that has written its last stage
C14_Witness ==
    \E r \in RunIds :
        /\ runs[r].pc = "cacheput"
        /\ state.processingStage = "complete"
        /\ state.currentQuery = runs[r].query

\* a step in which the agent takes up a query submission
SubmissionStep ==
    \/ \E query \in Queries :
          \/ HttpQueryCacheHitOf(query)
          \/ \E readOk \in BOOLEAN : HttpQueryCacheMissOf(query, readOk)
    \/ \E c \in Channels, query \in Queries \cup {Undefined} : onMessageQueryOf(c, query)

FreshAnalyzing(s, query) ==
    /\ StageOrIdle(s) = "analyzing"
    /\ Has(s, "currentQuery")
    /\ s.currentQuery = query
    /\ ~Has(s, "selectedWorks")
    /\ ~Has(s, "error")

C16_SubmissionTerminates ==
    \A r \in 1..PipeSubs :
        (runs[r].pc = "scheduled") ~>
            (runs[r].pc \in {"cacheput", "done"} /\ Stage \in {"complete", "error"})

\* a run that is over, the stage being terminal and no request pending
C16_Witness ==
    \E r \in RunIds :
        /\ runs[r].pc = "done"
        /\ Stage \in {"complete", "error"}
        /\ \A query \in Queries : reqs[query] = 0

\* C17: in every reachable state, selectedWorks is present in the Query
\* State only if the stage is complete.
C17_WorksOnlyWhenComplete ==
    Has(state, "selectedWorks") => Stage = "complete"

\* C18: in every reachable state, the error field is present in the Query
\* State only if the stage is error.
C18_ErrorOnlyWhenError ==
    Has(state, "error") => Stage = "error"

\* C19: a run whose research has returned its candidates never writes
\* error and never ends before it has written complete, whatever fails in
\* the image stage (the browser's launch and shutdown included) and in the
\* annotation stage.
C19_OnlyResearchFailureIsFatal ==
    [][\A r \in RunIds :
          (/\ runs[r].pc \in {"launch", "resolve", "pageclose", "browserclose", "annotate"}
           /\ runs'[r] # runs[r]) =>
              /\ runs'[r].pc # "done"
              /\ state' # state => StageOrIdle(state') # "error"]_vars

\* C20: a POST /query whose cache read fails leaves the state analyzing
\* with the query, a run scheduled for it and the accepted response, as a
\* miss does, even when the cache holds an entry for the query; and a
\* cache write that fails after the run wrote complete changes neither the
\* Query State nor the cache and ends the run.
C20_CacheFailuresIgnored ==
    [][/\ \A query \in Queries :
            HttpQueryCacheMissOf(query, FALSE) =>
                /\ FreshAnalyzing(state', query)
                /\ \E r \in RunIds :
                      /\ runs[r].pc = "none"
                      /\ runs'[r].pc = "scheduled"
                      /\ runs'[r].query = query
                /\ resp'.status = 200
                /\ ~Has(resp'.body, "cached")
       /\ \A r \in RunIds :
            (runs[r].pc = "cacheput" /\ runs'[r] # runs[r] /\ cache' = cache) =>
                /\ state' = state
                /\ runs'[r].pc = "done"]_vars

\* a submission taken as a miss because the read failed, the cache holding
\* the entry of its query
C20_Witness ==
    /\ console = <<"Error checking cache:">>
    /\ Stage = "analyzing"
    /\ Has(cache, CacheKey(state.currentQuery))

StateMessagesOf(msgs) == {i \in 1..Len(msgs) : msgs[i].type = "state"}

\* C21: in every step that changes the Query State, every channel that
\* was subscribed and whose own send works is sent a state message, every
\* channel whose send fails is no longer subscribed afterwards, and no run
\* ends with an error that is the failure of a send.
C21_BroadcastSurvivesSendFailure ==
    [][state' # state =>
          /\ \A c \in DOMAIN conns :
                (conns[c].open /\ ~conns[c].broken) =>
                    StateMessagesOf(conns'[c].sent) # {}
          /\ \A c \in DOMAIN conns :
                (conns[c].open /\ conns[c].broken) => ~conns'[c].open
          /\ Has(state', "error") => state'.error # SendErrorMessage]_vars

\* C22: in every step, a channel subscribed before and after it is sent
\* at most one state message, and exactly one, carrying the new stage, if
\* the step changed the Query State; a results message comes only after
\* the state message of the same step that announces complete.
C22_OneStateMessagePerMutation ==
    [][\A c \in Channels :
          (conns[c].open /\ conns'[c].open) =>
              LET sent == conns'[c].sent IN
              /\ Cardinality(StateMessagesOf(sent)) <= 1
              /\ state' # state =>
                    /\ StateMessagesOf(sent) = {1}
                    /\ sent[1].data.processingStage = state'.processingStage
              /\ \A i \in 1..Len(sent) :
                    sent[i].type = "results" =>
                        /\ i > 1
                        /\ sent[1].type = "state"
                        /\ sent[1].data.processingStage = "complete"]_vars

\* C23: the cache changes only by an entry expiring or by the put of a
\* run that has written complete with its annotated list; the put stores
\* exactly that list under the key of the run's own query, whatever
\* currentQuery is by then, and touches no other entry. A run gets to its
\* put only through its complete write, so a run that ended in error has
\* put nothing.
C23_CacheWrittenByCompletedRun ==
    [][/\ cache' # cache =>
            \/ /\ DOMAIN cache' \subseteq DOMAIN cache
               /\ \A key \in DOMAIN cache' : cache'[key] = cache[key]
            \/ \E r \in RunIds :
                  LET key == "query:" \o Str(runs[r].query) IN
                  /\ runs[r].pc = "cacheput"
                  /\ runs'[r].pc = "done"
                  /\ DOMAIN cache' = DOMAIN cache \cup {key}
                  /\ \A other \in DOMAIN cache \ {key} : cache'[other] = cache[other]
                  /\ cache'[key].json.artworks = Wire(runs[r].anns)
                  /\ Len(runs[r].anns) > 0
       /\ \A r \in RunIds :
            (runs[r].pc # "cacheput" /\ runs'[r].pc = "cacheput") =>
                /\ StageOrIdle(state') = "complete"
                /\ state'.selectedWorks = runs'[r].anns]_vars

\* the entry of a run that finished after another submission had changed
\* currentQuery, the run of that submission still being in flight
C23_Witness ==
    \E query \in Queries :
        /\ Has(cache, CacheKey(query))
        /\ Has(state, "currentQuery")
        /\ state.currentQuery # query
        /\ Stage = "complete"
        /\ cache[CacheKey(query)].json.artworks = Wire(state.selectedWorks)
        /\ \E r \in RunIds :
              runs[r].pc \notin {"none", "done"} /\ runs[r].query = state.currentQuery

\* the step in which run r makes its complete write
CompleteWrite(r) == runs[r].pc = "annotate" /\ runs'[r].pc = "cacheput"

\* C24: whenever complete is written, the works written are those of the
\* query then in currentQuery: a run's complete write finds its own query
\* there, a cache hit writes the query with the entry stored for it; and
\* while the stage stays complete no other step changes the pair.
C24_WorksBelongToCurrentQuery ==
    [][/\ \A r \in RunIds :
            (CompleteWrite(r) /\ runs[r].query \in Queries) =>
                /\ state'.selectedWorks = runs'[r].anns
                /\ Has(state', "currentQuery")
                /\ state'.currentQuery = runs[r].query
       /\ \A query \in Queries :
            HttpQueryCacheHitOf(query) =>
                /\ state'.currentQuery = query
                /\ state'.selectedWorks = cache[CacheKey(query)].json.artworks
       /\ (/\ Stage = "complete"
           /\ StageOrIdle(state') = "complete"
           /\ \A r \in RunIds : ~CompleteWrite(r)
           /\ \A query \in Queries : ~HttpQueryCacheHitOf(query)) =>
              /\ state'.selectedWorks = state.selectedWorks
              /\ OptKey(state', "currentQuery") = OptKey(state, "currentQuery")]_vars

\* C26: a step that answers the status request, the results request or a
\* request for no endpoint, and a step in which a channel connects, leaves
\* the Query State, the cache and the runs (scheduled or in flight) as
\* they were.
C26_ReadsChangeNothing ==
    [][(\/ resp'.op \in {"status", "results", "default", "fetch"}
        \/ \E c \in Channels : ~conns[c].open /\ conns'[c].open) =>
          /\ state' = state
          /\ cache' = cache
          /\ runs' = runs]_vars

\* the status request answered while a run is resolving images and an
\* entry is in the cache
C26_Witness ==
    /\ resp.op = "status"
    /\ resp.body.state = "fetching"
    /\ \E r \in RunIds : runs[r].pc = "resolve"
    /\ \E query \in Queries : Has(cache, CacheKey(query))

\* C25: when the front end is loading and the session's stage is complete
\* or error, the front end gets to a state in which the loading flag is
\* cleared and no poll is pending, whether the query went over the socket
\* or over HTTP.
C25_ClientStopsLoading ==
    (/\ client.isLoading
     /\ client.polling # "post"
     /\ Stage \in {"complete", "error"})
        ~> (~client.isLoading /\ client.polling = "no")

====
